---- MODULE Spec2Model ----
(***************************************************************************)
(* Model of the chunking core of bibleproject-scrapers:                    *)
(*   - AudioProcessor.chunk_podcast   (src/processors/audio.py)            *)
(*   - extract_text_from_pdf, split_text_into_chunks (src/utils/helpers.py)*)
(*   - AudioProcessor.process_audio, combine_transcriptions,              *)
(*     format_timestamp                                                    *)
(*   - AudioProcessor.process_pending_podcasts, process_new_podcasts       *)
(*   - BaseProcessor.process_pending_items, TextProcessor.process_content  *)
(*     (src/processors/base.py, src/processors/text.py)                    *)
(* Texts are sequences of one-character strings.  Positions and indices    *)
(* that the Python code keeps 0-based are 0-based here too; the k-th       *)
(* Python element of a list s is s[k+1].                                   *)
(***************************************************************************)
EXTENDS Integers, Sequences, FiniteSets, TLC

VARIABLES
    \* ---- AudioProcessor.chunk_podcast ----
    cp_pc,              \* position in chunk_podcast
    segments,           \* whisper_data['metadata']['segments']
    chunk_index,
    current_pos,
    cp_i,               \* loop variable i of the inner for
    cp_current_chunk,   \* current_chunk (list of segment texts)
    current_length,
    chunk_start_time,
    chatbot_sources,    \* rows stored through db.add_to_chatbot_sources
    status,             \* content status of the podcast
    result,             \* return value of chunk_podcast: "True", "False", "none" while running
    \* ---- extract_text_from_pdf / split_text_into_chunks ----
    pc,                 \* position in the text pipeline
    pages,              \* page texts of the PDF (<<>> when the text is given directly)
    text,               \* the document text
    max_size,
    overlap,
    page_breaks,        \* list of <<position, page_num>>
    clean_text,
    page_map,           \* clean position -> page
    paragraphs,         \* list of [text, at]; at = clean offset of the paragraph (provenance)
    p_idx,              \* index of the paragraph the for loop is at
    chunks,             \* list of [text, page, units]; units = the list the text was joined from
    current_chunk,      \* list of [text, at, carried]
    current_size,
    current_position,
    paragraph_page,
    sentences,          \* list of [text, at]
    s_idx,              \* index of the sentence the inner for loop is at
    sent_chunk,
    sent_size,
    sent_position

\* process_audio and combine_transcriptions
VARIABLES
    pa_pc,              \* where process_audio is
    pa_chunks,          \* number of pieces split_audio returned
    pa_idx,             \* position of the piece the for loop is at
    responses,          \* what transcribe_audio returned for each piece (kept as returned)
    transcriptions,     \* list of the responses that are not None, with their segment objects
    combined,           \* the dicts returned by the calls of combine_transcriptions
    pa_result           \* "none" while running, "None" or "combined" at return

\* format_timestamp
VARIABLES
    ft_pc,              \* "call" before format_timestamp runs, "done" after
    ft_seconds,         \* the argument
    ft_result           \* the returned string

\* two chunking calls whose steps interleave
VARIABLES
    pr_kind,            \* "text" or "audio": which function the two calls run; "idle" otherwise
    pr_phase,           \* "solo1", "solo2": each call run alone; "pair": the two calls interleaved
    pr_inputs,          \* the arguments of the two calls
    pr_solo,            \* what each call emitted when it ran alone
    pr_saved,           \* the local variables of the call that is not running
    podcast_id          \* the podcast (the call) the running invocation works on

\* failing inserts and repeated runs of process_pending_podcasts
VARIABLES
    insert_failures,    \* number of add_to_chatbot_sources calls of the running chunk_podcast that returned None
    run                 \* number of process_pending_podcasts runs begun

\* BaseProcessor.process_pending_items of the TextProcessor
VARIABLES
    pi_pc,              \* position in process_pending_items
    pending_items,      \* the rows get_pending_content returned: [text_content]
    item_idx,           \* index of the item the for loop is at
    chunk_objects,      \* what process_content returned for each item processed so far
    chunk_k,            \* index of the chunk object the inner for loop is at
    item_status,        \* the status column of each item
    item_sources,       \* rows stored through db.add_to_chatbot_sources
    processed_count,
    content_chunk_size  \* config.MAX_CONTENT_CHUNK_SIZE

\* AudioProcessor.process_new_podcasts
VARIABLES
    np_pc,              \* position in process_new_podcasts
    new_podcasts,       \* the rows fetched with status new: [download_url]
    np_idx,             \* index of the podcast the for loop is at
    np_status,          \* the status column of each fetched podcast
    np_processed_count

audioVars == <<cp_pc, segments, chunk_index, current_pos, cp_i, cp_current_chunk,
               current_length, chunk_start_time, chatbot_sources, status, result>>

textVars == <<pc, pages, text, max_size, overlap, page_breaks, clean_text, page_map,
              paragraphs, p_idx, chunks, current_chunk, current_size, current_position,
              paragraph_page, sentences, s_idx, sent_chunk, sent_size, sent_position>>

combineVars == <<pa_pc, pa_chunks, pa_idx, responses, transcriptions, combined, pa_result>>

timestampVars == <<ft_pc, ft_seconds, ft_result>>

pairVars == <<pr_kind, pr_phase, pr_inputs, pr_solo, pr_saved, podcast_id>>

storeVars == <<insert_failures, run>>

itemsVars == <<pi_pc, pending_items, item_idx, chunk_objects, chunk_k, item_status, item_sources, processed_count, content_chunk_size>>

newVars == <<np_pc, new_podcasts, np_idx, np_status, np_processed_count>>

vars == <<audioVars, textVars, combineVars, timestampVars, pairVars, storeVars, itemsVars, newVars>>

\* what the steps of one part leave alone: the variables of the other parts
notAudio == <<textVars, combineVars, timestampVars, pairVars, storeVars, itemsVars, newVars>>
notText == <<audioVars, combineVars, timestampVars, pairVars, storeVars, itemsVars, newVars>>
notCombine == <<audioVars, textVars, timestampVars, pairVars, storeVars, itemsVars, newVars>>
notItems == <<audioVars, textVars, combineVars, timestampVars, pairVars, storeVars, newVars>>
notNew == <<audioVars, textVars, combineVars, timestampVars, pairVars, storeVars, itemsVars>>
notAudioStore == <<textVars, combineVars, timestampVars, pairVars, itemsVars, newVars>>
notTextItems == <<audioVars, combineVars, timestampVars, pairVars, storeVars, newVars>>
notChunking == <<combineVars, timestampVars, storeVars, itemsVars, newVars>>

(***************************************************************************)
(* Bounds of the model                                                     *)
(***************************************************************************)
MaxSegs == 4
MaxChunks == 5
MaxTokens == 4
MaxPages == 3
MaxPieces == 3
MaxCombines == 2
MaxSeconds == 70

\* lengths of the segment texts the inputs are drawn from
SegLens == {300, 400, 600, 1100}

(***************************************************************************)
(* Generic helpers                                                         *)
(***************************************************************************)
Max(a, b) == IF a >= b THEN a ELSE b

\* sep.join(list)
RECURSIVE Join(_, _)
Join(list, sep) ==
    IF Len(list) = 0 THEN <<>>
    ELSE IF Len(list) = 1 THEN list[1]
    ELSE list[1] \o sep \o Join(Tail(list), sep)

(***************************************************************************)
(* Segment texts are long (hundreds of characters) and chunk_podcast only  *)
(* takes their len() and joins them, so they are kept run-length encoded:  *)
(* a sequence of runs [ch, n], n >= 1 copies of the character ch.          *)
(***************************************************************************)
\* the text of n copies of the character ch
Rep(ch, n) == IF n = 0 THEN <<>> ELSE <<[ch |-> ch, n |-> n]>>

\* len(text)
RECURSIVE RunLen(_)
RunLen(t) == IF t = <<>> THEN 0 ELSE t[1].n + RunLen(Tail(t))

Space == Rep(" ", 1)

SegChar(k) == <<"a", "b", "c", "d", "e", "f">>[((k - 1) % 6) + 1]

(***************************************************************************)
(* States of the parts while another part runs                             *)
(***************************************************************************)
TextIdle ==
    /\ pc = "idle" /\ pages = <<>> /\ text = <<>> /\ max_size = 0 /\ overlap = 0
    /\ page_breaks = <<>> /\ clean_text = <<>> /\ page_map = <<>> /\ paragraphs = <<>>
    /\ p_idx = 0 /\ chunks = <<>> /\ current_chunk = <<>> /\ current_size = 0
    /\ current_position = 0 /\ paragraph_page = 1 /\ sentences = <<>> /\ s_idx = 0
    /\ sent_chunk = <<>> /\ sent_size = 0 /\ sent_position = 0

AudioIdle ==
    /\ cp_pc = "idle" /\ segments = <<>> /\ chunk_index = 0 /\ current_pos = 0
    /\ cp_i = 0 /\ cp_current_chunk = <<>> /\ current_length = 0
    /\ chunk_start_time = 0 /\ chatbot_sources = <<>> /\ status = "pending"
    /\ result = "none"

CombineIdle ==
    /\ pa_pc = "idle" /\ pa_chunks = 0 /\ pa_idx = 0 /\ responses = <<>>
    /\ transcriptions = <<>> /\ combined = <<>> /\ pa_result = "none"

TimestampIdle == ft_pc = "idle" /\ ft_seconds = 0 /\ ft_result = <<>>

PairIdle ==
    /\ pr_kind = "idle" /\ pr_phase = "idle" /\ pr_inputs = <<>> /\ pr_solo = <<>>
    /\ pr_saved = [kind |-> "none"] /\ podcast_id = 1

StoreIdle ==
    /\ insert_failures = 0 /\ run = 0

ItemsIdle ==
    /\ pi_pc = "idle" /\ pending_items = <<>> /\ item_idx = 0 /\ chunk_objects = <<>>
    /\ chunk_k = 0 /\ item_status = <<>> /\ item_sources = <<>> /\ processed_count = 0
    /\ content_chunk_size = 0

NewIdle ==
    /\ np_pc = "idle" /\ new_podcasts = <<>> /\ np_idx = 0 /\ np_status = <<>>
    /\ np_processed_count = 0

\* the parts that are not named in parts are idle
OthersIdle(parts) ==
    /\ IF "audio" \in parts THEN TRUE ELSE AudioIdle
    /\ IF "text" \in parts THEN TRUE ELSE TextIdle
    /\ IF "combine" \in parts THEN TRUE ELSE CombineIdle
    /\ IF "timestamp" \in parts THEN TRUE ELSE TimestampIdle
    /\ IF "pair" \in parts THEN TRUE ELSE PairIdle
    /\ IF "store" \in parts THEN TRUE ELSE StoreIdle
    /\ IF "items" \in parts THEN TRUE ELSE ItemsIdle
    /\ IF "new" \in parts THEN TRUE ELSE NewIdle

(***************************************************************************)
(* Characters and the regular expressions of helpers.py                    *)
(***************************************************************************)
NL == "\n"
DigitChars == <<"0", "1", "2", "3", "4", "5", "6", "7", "8", "9">>
IsDigit(c) == \E d \in 1..10 : DigitChars[d] = c
DigitVal(c) == (CHOOSE d \in 1..10 : DigitChars[d] = c) - 1
\* \s of the re module, over the characters the inputs use
IsSpace(c) == c \in {" ", NL, "\t"}
\* [.!?]
IsSentenceEnd(c) == c \in {".", "!", "?"}

\* str(n) for n >= 0
RECURSIVE Str(_)
Str(n) == IF n < 10 THEN <<DigitChars[n + 1]>>
          ELSE Str(n \div 10) \o <<DigitChars[(n % 10) + 1]>>

\* the literal '[PAGE_BREAK_'
MarkerPrefix == <<"[", "P", "A", "G", "E", "_", "B", "R", "E", "A", "K", "_">>

\* s[i:].startswith(p), i 0-based
StartsWith(s, i, p) ==
    /\ i + Len(p) <= Len(s)
    /\ \A k \in 1..Len(p) : s[i + k] = p[k]

\* the first position >= j of s that holds no digit
RECURSIVE DigitsEnd(_, _)
DigitsEnd(s, j) == IF j < Len(s) /\ IsDigit(s[j + 1]) THEN DigitsEnd(s, j + 1) ELSE j

\* int(s[a:b])
RECURSIVE ParseInt(_, _, _)
ParseInt(s, a, b) ==
    IF b <= a THEN 0 ELSE ParseInt(s, a, b - 1) * 10 + DigitVal(s[b])

\* length of the match of \[PAGE_BREAK_(\d+)\] at position i of s, 0 if none
MatchLen(s, i) ==
    IF StartsWith(s, i, MarkerPrefix)
    THEN LET j == i + Len(MarkerPrefix)
             e == DigitsEnd(s, j)
         IN IF e > j /\ e < Len(s) /\ s[e + 1] = "]" THEN (e + 1) - i ELSE 0
    ELSE 0

\* int(match.group(1)) of the match at position i
MatchPageNum(s, i) ==
    LET j == i + Len(MarkerPrefix) IN ParseInt(s, j, DigitsEnd(s, j))

\* lines 111-117: re.finditer, left to right without overlap; the list is
\* built in position order, which the sort by position keeps
RECURSIVE FindPageBreaks(_, _)
FindPageBreaks(s, i) ==
    IF i >= Len(s) THEN <<>>
    ELSE IF MatchLen(s, i) > 0
         THEN <<<<i, MatchPageNum(s, i)>>>> \o FindPageBreaks(s, i + MatchLen(s, i))
         ELSE FindPageBreaks(s, i + 1)

\* line 120: re.sub(r'\[PAGE_BREAK_\d+\]', '', text)
RECURSIVE StripMarkers(_, _)
StripMarkers(s, i) ==
    IF i >= Len(s) THEN <<>>
    ELSE IF MatchLen(s, i) > 0 THEN StripMarkers(s, i + MatchLen(s, i))
         ELSE <<s[i + 1]>> \o StripMarkers(s, i + 1)

\* the test of line 126: is position i entered in the offset map
OffsetMapKeeps(s, i) == ~StartsWith(s, i, MarkerPrefix)

\* lines 123-128: the original positions entered in offset_map, in order; the
\* k-th of them (0-based) is paired with clean_pos = k
RECURSIVE OffsetMap(_, _)
OffsetMap(s, i) ==
    IF i >= Len(s) THEN <<>>
    ELSE IF OffsetMapKeeps(s, i) THEN <<i>> \o OffsetMap(s, i + 1)
         ELSE OffsetMap(s, i + 1)

PageOfOrig_ZeroBased(breaks, orig_pos, page) == Len(breaks)

\* lines 136-139: the page of the last break with orig_pos >= break_pos, or 1
RECURSIVE PageOfOrig(_, _, _)
PageOfOrig(breaks, orig_pos, page) ==
    IF breaks = <<>> THEN page
    ELSE PageOfOrig(Tail(breaks), orig_pos,
                    IF orig_pos >= breaks[1][1] THEN breaks[1][2] ELSE page)

\* lines 131-141: page_map, a function on the clean positions 0..len(offset_map)-1
BuildPageMap(s, breaks) ==
    LET om == OffsetMap(s, 0)
    IN [clean_pos \in 0..(Len(om) - 1) |-> PageOfOrig(breaks, om[clean_pos + 1], 1)]

\* page_map.get(pos, default)
PageMapGet(pm, pos, default) == IF pos \in DOMAIN pm THEN pm[pos] ELSE default

\* length of the run of newlines that starts at position i
RECURSIVE NewlineRun(_, _)
NewlineRun(s, i) == IF i < Len(s) /\ s[i + 1] = NL THEN 1 + NewlineRun(s, i + 1) ELSE 0

\* length of the run of whitespace that starts at position i
RECURSIVE SpaceRun(_, _)
SpaceRun(s, i) == IF i < Len(s) /\ IsSpace(s[i + 1]) THEN 1 + SpaceRun(s, i + 1) ELSE 0

\* line 144: re.split(r'\n{2,}', s) from position i on, cur being the piece
\* under way; each piece carries the position where it starts
RECURSIVE SplitParagraphs(_, _, _)
SplitParagraphs(s, i, cur) ==
    IF i >= Len(s) THEN <<cur>>
    ELSE IF NewlineRun(s, i) >= 2
         THEN <<cur>> \o SplitParagraphs(s, i + NewlineRun(s, i),
                                         [text |-> <<>>, at |-> i + NewlineRun(s, i)])
         ELSE SplitParagraphs(s, i + 1, [cur EXCEPT !.text = Append(@, s[i + 1])])

\* line 171: re.split(r'(?<=[.!?])\s+', s); base is the position of s[0] in
\* the clean text
RECURSIVE SplitSentences(_, _, _, _)
SplitSentences(s, i, cur, base) ==
    IF i >= Len(s) THEN <<cur>>
    ELSE IF i > 0 /\ IsSentenceEnd(s[i]) /\ SpaceRun(s, i) >= 1
         THEN <<cur>> \o SplitSentences(s, i + SpaceRun(s, i),
                                        [text |-> <<>>, at |-> base + i + SpaceRun(s, i)],
                                        base)
         ELSE SplitSentences(s, i + 1, [cur EXCEPT !.text = Append(@, s[i + 1])], base)

\* the texts of a list of units
Texts(list) == [k \in 1..Len(list) |-> list[k].text]

\* sum(len(p) + extra for p in list)
RECURSIVE SumLen(_, _)
SumLen(list, extra) ==
    IF list = <<>> THEN 0 ELSE Len(list[1].text) + extra + SumLen(Tail(list), extra)

\* list[a:] and list[:a] for 0 <= a
SliceFrom(list, a) == SubSeq(list, a + 1, Len(list))
SliceTo(list, a) == SubSeq(list, 1, IF a < Len(list) THEN a ELSE Len(list))

\* the separators of the joins, lines 161 and 182
ParaSep == <<NL, NL>>
SentSep == <<" ">>

(***************************************************************************)
(* AudioProcessor.chunk_podcast                                            *)
(***************************************************************************)
chunk_size == 1000
overlap_size == 2

\* the segment list built from the text lengths lens; segment k (1-based)
\* spans 10*(k-1) .. 10*(k-1)+8 seconds
MkSegments(lens) ==
    [k \in 1..Len(lens) |->
        [text |-> Rep(SegChar(k), lens[k]),
         start |-> 10 * (k - 1),
         end |-> 10 * (k - 1) + 8]]

SegLenSeqs == UNION {[1..n -> SegLens] : n \in 0..MaxSegs}

\* the same segments with the times of the first two exchanged: a list that
\* is not in the order of its start times
SwapFirstTimes(segs) ==
    [k \in 1..Len(segs) |->
        IF k = 1 THEN [segs[1] EXCEPT !.start = segs[2].start, !.end = segs[2].end]
        ELSE IF k = 2 THEN [segs[2] EXCEPT !.start = segs[1].start, !.end = segs[1].end]
        ELSE segs[k]]

\* the segment lists a stored Whisper response may hold
SegmentLists ==
    {MkSegments(lens) : lens \in SegLenSeqs}
    \cup {SwapFirstTimes(MkSegments(lens)) : lens \in {l \in SegLenSeqs : Len(l) >= 2}}

InitAudio ==
    /\ cp_pc = "begin"
    /\ segments \in SegmentLists
    /\ chunk_index = 0
    /\ current_pos = 0
    /\ cp_i = 0
    /\ cp_current_chunk = <<>>
    /\ current_length = 0
    /\ chunk_start_time = 0
    /\ chatbot_sources = <<>>
    /\ status = "pending"
    /\ result = "none"
    /\ OthersIdle({"audio"})

\* the rows of chatbot_sources that belong to one podcast, in insertion order
RowsOf(id) == SelectSeq(chatbot_sources, LAMBDA row : row.content_index_id = id)

\* db.add_to_chatbot_sources with a store that accepts every row.  Rows of a
\* podcast past MaxChunks are not recorded, so that a run that never ends
\* stays finite.
AddToChatbotSources(content, metadata) ==
    /\ chatbot_sources' =
         IF Len(RowsOf(podcast_id)) < MaxChunks
         THEN Append(chatbot_sources, [content |-> content, metadata |-> metadata,
                                       content_index_id |-> podcast_id])
         ELSE chatbot_sources
    /\ chunk_index' = IF chunk_index < MaxChunks THEN chunk_index + 1 ELSE chunk_index

\* lines 74-77: no segments, return False
NoSegments ==
    /\ cp_pc = "begin"
    /\ Len(segments) = 0
    /\ cp_pc' = "done"
    /\ result' = "False"
    /\ UNCHANGED <<segments, chunk_index, current_pos, cp_i, cp_current_chunk,
                   current_length, chunk_start_time, chatbot_sources, status>>
    /\ UNCHANGED notAudio

\* lines 79-82
InitChunking ==
    /\ cp_pc = "begin"
    /\ Len(segments) > 0
    /\ chunk_index' = 0
    /\ current_pos' = 0
    /\ cp_pc' = "while"
    /\ UNCHANGED <<segments, cp_i, cp_current_chunk, current_length,
                   chunk_start_time, chatbot_sources, status, result>>
    /\ UNCHANGED notAudio

\* lines 84-91: the while test succeeds, a new chunk is begun
WhileEnter ==
    /\ cp_pc = "while"
    /\ current_pos < Len(segments)
    /\ cp_current_chunk' = <<>>
    /\ current_length' = 0
    /\ chunk_start_time' = segments[current_pos + 1].start
    /\ cp_i' = current_pos
    /\ cp_pc' = "for"
    /\ UNCHANGED <<segments, chunk_index, current_pos, chatbot_sources, status, result>>
    /\ UNCHANGED notAudio

NextPos_NoOverlap(i) == i

NextPos_SkipsSegment(i) == i + 1

\* the cursor of the next chunk, line 131
NextPos(i) == Max(0, i - overlap_size)

OverflowEndIndex_OffByOne(i) == i

\* segment_end_index of a chunk closed by overflow at segment i, line 110
OverflowEndIndex(i) == i - 1

OverflowEndSeconds_SegmentEnd(segment) == segment.end

\* end_seconds of a chunk closed by overflow at this segment, line 104
OverflowEndSeconds(segment) == segment.start

\* lines 97-133: segment i would exceed the chunk size, the chunk is closed
ForOverflow ==
    /\ cp_pc = "for"
    /\ LET segment == segments[cp_i + 1]
           segment_length == RunLen(segment.text)
       IN /\ current_length + segment_length > chunk_size
          /\ cp_current_chunk # <<>>
          /\ AddToChatbotSources(
                Join(cp_current_chunk, Space),
                [chunk_index |-> chunk_index,
                 start_seconds |-> chunk_start_time,
                 end_seconds |-> OverflowEndSeconds(segment),
                 segment_start_index |-> current_pos,
                 segment_end_index |-> OverflowEndIndex(cp_i)])
          /\ current_pos' = NextPos(cp_i)
          /\ cp_pc' = "while"
    /\ UNCHANGED <<segments, cp_i, cp_current_chunk, current_length,
                   chunk_start_time, status, result>>
    /\ UNCHANGED notAudio

\* lines 134-136: segment i is appended, and it is not the last one
ForAppend ==
    /\ cp_pc = "for"
    /\ LET segment == segments[cp_i + 1]
           segment_length == RunLen(segment.text)
       IN /\ ~(current_length + segment_length > chunk_size /\ cp_current_chunk # <<>>)
          /\ cp_i # Len(segments) - 1
          /\ cp_current_chunk' = Append(cp_current_chunk, segment.text)
          /\ current_length' = current_length + segment_length
          /\ cp_i' = cp_i + 1
    /\ UNCHANGED <<cp_pc, segments, chunk_index, current_pos, chunk_start_time,
                   chatbot_sources, status, result>>
    /\ UNCHANGED notAudio

\* lines 134-170: segment i is appended and is the last one: the final chunk
ForFinal ==
    /\ cp_pc = "for"
    /\ LET segment == segments[cp_i + 1]
           segment_length == RunLen(segment.text)
       IN /\ ~(current_length + segment_length > chunk_size /\ cp_current_chunk # <<>>)
          /\ cp_i = Len(segments) - 1
          /\ cp_current_chunk' = Append(cp_current_chunk, segment.text)
          /\ current_length' = current_length + segment_length
          /\ AddToChatbotSources(
                Join(cp_current_chunk', Space),
                [chunk_index |-> chunk_index,
                 start_seconds |-> chunk_start_time,
                 end_seconds |-> segment.end,
                 segment_start_index |-> current_pos,
                 segment_end_index |-> cp_i])
          /\ current_pos' = Len(segments)
          /\ cp_pc' = "while"
    /\ UNCHANGED <<segments, cp_i, chunk_start_time, status, result>>
    /\ UNCHANGED notAudio

\* lines 84, 172-176: the while test fails, the podcast is marked processed
WhileExit ==
    /\ cp_pc = "while"
    /\ ~(current_pos < Len(segments))
    /\ status' = "processed"
    /\ result' = "True"
    /\ cp_pc' = "done"
    /\ UNCHANGED <<segments, chunk_index, current_pos, cp_i, cp_current_chunk,
                   current_length, chunk_start_time, chatbot_sources>>
    /\ UNCHANGED notAudio

NextAudio ==
    \/ NoSegments
    \/ InitChunking
    \/ WhileEnter
    \/ ForOverflow
    \/ ForAppend
    \/ ForFinal
    \/ WhileExit

SpecAudio == InitAudio /\ [][NextAudio]_vars

\* chunk_podcast is one synchronous call: a step that can be taken is taken
FairSpecAudio == SpecAudio /\ WF_vars(NextAudio)

(***************************************************************************)
(* extract_text_from_pdf and split_text_into_chunks                        *)
(***************************************************************************)
TokA == <<"a", "a">>
TokS == <<"b", "b", "b", ".", " ">>
TokP == <<NL, NL>>
TokN == <<NL>>
Marker(n) == MarkerPrefix \o Str(n) \o <<"]">>

\* the pieces the input texts are assembled from
Tokens == {TokA, TokS, TokP, TokN, Marker(1), Marker(2)}

RECURSIVE Concat(_)
Concat(list) == IF list = <<>> THEN <<>> ELSE list[1] \o Concat(Tail(list))

InputTexts == {Concat(toks) : toks \in UNION {[1..n -> Tokens] : n \in 0..MaxTokens}}

\* the page texts a PDF is assembled from
PageTexts == {TokA, TokS \o TokA, TokA \o TokP \o TokA}
InputPdfs == UNION {[1..n -> PageTexts] : n \in 1..MaxPages}

\* the <<max_size, overlap>> pairs of the calls
Params == {<<4, 0>>, <<4, 2>>, <<6, 10>>}

\* the character patterns the long paragraphs repeat: letters, single
\* newlines, spaces, and sentence-end characters that no whitespace follows
LongPatterns == {<<"a">>, <<"a", " ">>, <<"a", NL>>, <<".", "a">>, <<".", "a", " ", "b">>,
                 <<"?", "!", "b", NL, "a">>}

Cycle(pat, n) == [k \in 1..n |-> pat[((k - 1) % Len(pat)) + 1]]

\* the documents that are one long paragraph of n characters
LongParagraphs(n) == {Cycle(pat, n) : pat \in LongPatterns}

\* a paragraph made of sentences of the given lengths, each ending in a
\* period, one space between them
SentencePar(lens) ==
    Join([k \in 1..Len(lens) |-> Cycle(<<"x">>, lens[k] - 1) \o <<".">>], <<" ">>)

\* the ways a paragraph of n + (n \div 40) characters is cut into sentences
\* shorter than n: two halves, three thirds, nine sentences of three
\* characters and a last one that fills the paragraph
SentenceLengths(n) ==
    LET m == n + (n \div 40)
    IN { <<(m - 1) \div 2, m - 1 - ((m - 1) \div 2)>>,
         <<(m - 2) \div 3, (m - 2) \div 3, m - 2 - 2 * ((m - 2) \div 3)>>,
         [k \in 1..10 |-> IF k = 10 THEN m - 36 ELSE 3] }

\* a paragraph of n \div 40 characters, then a paragraph of n + (n \div 40)
\* characters made of sentences: 100 and 4100 characters for n = 4000
TwoParagraphDocs(n) ==
    {Cycle(<<"a">>, n \div 40) \o <<NL, NL>> \o SentencePar(lens) :
        lens \in SentenceLengths(n)}

\* pieces that begin like a page-break marker and are not one: no number, no
\* closing bracket, a letter for the number
MalformedMarkers ==
    {MarkerPrefix \o <<"]">>, MarkerPrefix \o <<"1">>, MarkerPrefix \o <<"a", "]">>}

\* texts that hold such pieces between paragraphs and sentences
MalformedTexts ==
    UNION {{TokA \o m \o TokP \o TokA \o TokS \o TokA,
            m \o TokP \o TokA \o TokP \o TokA \o m,
            TokS \o m \o TokS \o TokA} : m \in MalformedMarkers}

InitText ==
    /\ \/ /\ \E prm \in Params : max_size = prm[1] /\ overlap = prm[2]
          /\ \/ /\ pc = "start" /\ pages = <<>> /\ text \in InputTexts
             \/ /\ pc = "start" /\ pages = <<>>
                /\ text \in LongParagraphs(10 * max_size)
             \/ /\ pc = "start" /\ pages = <<>> /\ text \in MalformedTexts
             \/ /\ pc = "pdf" /\ pages \in InputPdfs /\ text = <<>>
       \/ /\ max_size = 40 /\ overlap \in {4, 10}
          /\ pc = "start" /\ pages = <<>> /\ text \in TwoParagraphDocs(max_size)
    /\ page_breaks = <<>> /\ clean_text = <<>> /\ page_map = <<>> /\ paragraphs = <<>>
    /\ p_idx = 0 /\ chunks = <<>> /\ current_chunk = <<>> /\ current_size = 0
    /\ current_position = 0 /\ paragraph_page = 1 /\ sentences = <<>> /\ s_idx = 0
    /\ sent_chunk = <<>> /\ sent_size = 0 /\ sent_position = 0
    /\ OthersIdle({"text"})

PageBreakMarkerNum_Following(i) == i + 2

\* the number written in the marker after the page of 0-based index i, line 86
PageBreakMarkerNum(i) == i + 1

\* lines 73-88: the text of the pages, a marker line after each but the last
RECURSIVE PdfText(_, _)
PdfText(pgs, i) ==
    IF i >= Len(pgs) THEN <<>>
    ELSE pgs[i + 1]
         \o (IF i < Len(pgs) - 1
             THEN <<NL>> \o Marker(PageBreakMarkerNum(i)) \o <<NL>>
             ELSE <<>>)
         \o PdfText(pgs, i + 1)

\* extract_text_from_pdf, whose result is then chunked
ExtractTextFromPdf ==
    /\ pc = "pdf"
    /\ text' = PdfText(pages, 0)
    /\ pc' = "start"
    /\ UNCHANGED <<pages, max_size, overlap, page_breaks, clean_text, page_map,
                   paragraphs, p_idx, chunks, current_chunk, current_size,
                   current_position, paragraph_page, sentences, s_idx, sent_chunk,
                   sent_size, sent_position>>
    /\ UNCHANGED notText

\* lines 105-149: page breaks, clean text, page map, paragraphs
Prepare ==
    /\ pc = "start"
    /\ page_breaks' = FindPageBreaks(text, 0)
    /\ clean_text' = StripMarkers(text, 0)
    /\ page_map' = BuildPageMap(text, page_breaks')
    /\ paragraphs' = SplitParagraphs(clean_text', 0, [text |-> <<>>, at |-> 0])
    /\ chunks' = <<>>
    /\ current_chunk' = <<>>
    /\ current_size' = 0
    /\ current_position' = 0
    /\ p_idx' = 0
    /\ pc' = "para"
    /\ UNCHANGED <<pages, text, max_size, overlap, paragraph_page, sentences, s_idx,
                   sent_chunk, sent_size, sent_position>>
    /\ UNCHANGED notText

\* a chunk record: the joined text and its page
MkChunk(units, sep, page) == [text |-> Join(Texts(units), sep), page |-> page, units |-> units]

Unit(u, carried) == [text |-> u.text, at |-> u.at, carried |-> carried]

\* the start position whose page a paragraph chunk gets, lines 162, 220, 251
ChunkStartPosition == current_position - current_size

\* lines 158-175: the paragraph is longer than max_size; the chunk under way
\* is stored and the paragraph is split into sentences
ParagraphOversize ==
    /\ pc = "para"
    /\ p_idx < Len(paragraphs)
    /\ LET paragraph == paragraphs[p_idx + 1]
           paragraph_size == Len(paragraph.text)
       IN /\ paragraph_size > max_size
          /\ paragraph_page' = PageMapGet(page_map, current_position, 1)
          /\ IF current_chunk # <<>>
             THEN /\ chunks' = Append(chunks,
                        MkChunk(current_chunk, ParaSep,
                                PageMapGet(page_map, ChunkStartPosition, 1)))
                  /\ current_chunk' = <<>>
                  /\ current_size' = 0
             ELSE UNCHANGED <<chunks, current_chunk, current_size>>
          /\ sentences' = SplitSentences(paragraph.text, 0,
                                         [text |-> <<>>, at |-> paragraph.at], paragraph.at)
          /\ sent_chunk' = <<>>
          /\ sent_size' = 0
          /\ sent_position' = current_position
          /\ s_idx' = 0
          /\ pc' = "sent"
    /\ UNCHANGED <<pages, text, max_size, overlap, page_breaks, clean_text, page_map,
                   paragraphs, p_idx, current_position>>
    /\ UNCHANGED notText

SentenceFits_SizeOnly(sentence) == sent_size + Len(sentence.text) <= max_size

\* line 178: the sentence fits, or the sentence chunk is empty
SentenceFits(sentence) ==
    sent_size + Len(sentence.text) <= max_size \/ sent_chunk = <<>>

\* lines 178-180: the sentence is added to the sentence chunk
SentenceAppend ==
    /\ pc = "sent"
    /\ s_idx < Len(sentences)
    /\ LET sentence == sentences[s_idx + 1]
       IN /\ SentenceFits(sentence)
          /\ sent_chunk' = Append(sent_chunk, Unit(sentence, FALSE))
          /\ sent_size' = sent_size + Len(sentence.text) + 1
    /\ s_idx' = s_idx + 1
    /\ UNCHANGED <<pc, pages, text, max_size, overlap, page_breaks, clean_text, page_map,
                   paragraphs, p_idx, chunks, current_chunk, current_size,
                   current_position, paragraph_page, sentences, sent_position>>
    /\ UNCHANGED notText

\* line 191: the index from which the sentences are carried over
OverlapPoint(n) == Max(0, n - (overlap \div 10))

\* lines 181-200: the sentence does not fit; the sentence chunk is stored and
\* the next one starts with the carried sentences and this sentence
SentenceFlush ==
    /\ pc = "sent"
    /\ s_idx < Len(sentences)
    /\ LET sentence == sentences[s_idx + 1]
           overlap_point == OverlapPoint(Len(sent_chunk))
           kept == SliceFrom(sent_chunk, overlap_point)
           overlap_chars == SumLen(SliceTo(kept, overlap_point), 1)
       IN /\ ~SentenceFits(sentence)
          /\ chunks' = Append(chunks,
                MkChunk(sent_chunk, SentSep,
                        PageMapGet(page_map, sent_position, paragraph_page)))
          /\ sent_chunk' = [k \in 1..Len(kept) |-> Unit(kept[k], TRUE)]
                           \o <<Unit(sentence, FALSE)>>
          /\ sent_size' = SumLen(kept, 1) + Len(sentence.text) + 1
          /\ sent_position' = sent_position + overlap_chars
    /\ s_idx' = s_idx + 1
    /\ UNCHANGED <<pc, pages, text, max_size, overlap, page_breaks, clean_text, page_map,
                   paragraphs, p_idx, current_chunk, current_size, current_position,
                   paragraph_page, sentences>>
    /\ UNCHANGED notText

\* lines 202-209: the sentences are exhausted; the last sentence chunk is
\* stored with the page of the paragraph
SentenceEnd ==
    /\ pc = "sent"
    /\ s_idx = Len(sentences)
    /\ chunks' = IF sent_chunk # <<>>
                 THEN Append(chunks, MkChunk(sent_chunk, SentSep, paragraph_page))
                 ELSE chunks
    /\ current_position' = current_position + Len(paragraphs[p_idx + 1].text) + 2
    /\ p_idx' = p_idx + 1
    /\ pc' = "para"
    /\ UNCHANGED <<pages, text, max_size, overlap, page_breaks, clean_text, page_map,
                   paragraphs, current_chunk, current_size, paragraph_page, sentences,
                   s_idx, sent_chunk, sent_size, sent_position>>
    /\ UNCHANGED notText

\* lines 212-215: the paragraph fits in the chunk under way
ParagraphAppend ==
    /\ pc = "para"
    /\ p_idx < Len(paragraphs)
    /\ LET paragraph == paragraphs[p_idx + 1]
           paragraph_size == Len(paragraph.text)
       IN /\ ~(paragraph_size > max_size)
          /\ current_size + paragraph_size <= max_size
          /\ paragraph_page' = PageMapGet(page_map, current_position, 1)
          /\ current_chunk' = Append(current_chunk, Unit(paragraph, FALSE))
          /\ current_size' = current_size + paragraph_size + 2
          /\ current_position' = current_position + paragraph_size + 2
    /\ p_idx' = p_idx + 1
    /\ UNCHANGED <<pc, pages, text, max_size, overlap, page_breaks, clean_text, page_map,
                   paragraphs, chunks, sentences, s_idx, sent_chunk, sent_size,
                   sent_position>>
    /\ UNCHANGED notText

OverlapChunks_AlwaysLast(cc, i, overlap_size_) ==
    IF i < 0 THEN <<>> ELSE <<cc[i + 1]>>

\* lines 228-238: the paragraphs carried over, looking back from index i
RECURSIVE OverlapChunks(_, _, _)
OverlapChunks(cc, i, overlap_size_) ==
    IF i < 0 THEN <<>>
    ELSE IF overlap_size_ + Len(cc[i + 1].text) <= overlap
         THEN OverlapChunks(cc, i - 1, overlap_size_ + Len(cc[i + 1].text) + 2)
              \o <<cc[i + 1]>>
         ELSE <<>>

NewChunk_DropParagraph(overlap_chunks, paragraph) ==
    [k \in 1..Len(overlap_chunks) |-> Unit(overlap_chunks[k], TRUE)]

\* line 240: the chunk that follows an overflow
NewChunk(overlap_chunks, paragraph) ==
    [k \in 1..Len(overlap_chunks) |-> Unit(overlap_chunks[k], TRUE)]
    \o <<Unit(paragraph, FALSE)>>

\* lines 216-245: the paragraph does not fit; the chunk is stored and the next
\* one starts with the carried paragraphs and this paragraph
ParagraphOverflow ==
    /\ pc = "para"
    /\ p_idx < Len(paragraphs)
    /\ LET paragraph == paragraphs[p_idx + 1]
           paragraph_size == Len(paragraph.text)
           overlap_chunks == OverlapChunks(current_chunk, Len(current_chunk) - 1, 0)
           overlap_chars == SumLen(overlap_chunks, 2)
       IN /\ ~(paragraph_size > max_size)
          /\ ~(current_size + paragraph_size <= max_size)
          /\ paragraph_page' = PageMapGet(page_map, current_position, 1)
          /\ chunks' = Append(chunks,
                MkChunk(current_chunk, ParaSep,
                        PageMapGet(page_map, ChunkStartPosition, 1)))
          /\ current_chunk' = NewChunk(overlap_chunks, paragraph)
          /\ current_size' = SumLen(current_chunk', 2)
          /\ current_position' = (current_position - overlap_chars) + paragraph_size + 2
    /\ p_idx' = p_idx + 1
    /\ UNCHANGED <<pc, pages, text, max_size, overlap, page_breaks, clean_text, page_map,
                   paragraphs, sentences, s_idx, sent_chunk, sent_size, sent_position>>
    /\ UNCHANGED notText

\* lines 247-258: the paragraphs are exhausted; what remains is stored
FinalFlush ==
    /\ pc = "para"
    /\ p_idx = Len(paragraphs)
    /\ chunks' = IF current_chunk # <<>>
                 THEN Append(chunks,
                        MkChunk(current_chunk, ParaSep,
                                PageMapGet(page_map, ChunkStartPosition, 1)))
                 ELSE chunks
    /\ pc' = "done"
    /\ UNCHANGED <<pages, text, max_size, overlap, page_breaks, clean_text, page_map,
                   paragraphs, p_idx, current_chunk, current_size, current_position,
                   paragraph_page, sentences, s_idx, sent_chunk, sent_size,
                   sent_position>>
    /\ UNCHANGED notText

SpecText ==
    /\ InitText
    /\ [][\/ ExtractTextFromPdf
          \/ Prepare
          \/ ParagraphOversize
          \/ SentenceAppend
          \/ SentenceFlush
          \/ SentenceEnd
          \/ ParagraphAppend
          \/ ParagraphOverflow
          \/ FinalFlush]_vars

(***************************************************************************)
(* AudioProcessor.process_audio and combine_transcriptions                 *)
(***************************************************************************)
\* the segments Whisper may return for one piece, times relative to the
\* piece; the last one starts after the 600th second of its piece
SegTemplates ==
    << [text |-> <<"u">>, start |-> 0, end |-> 4],
       [text |-> <<"v">>, start |-> 5, end |-> 9],
       [text |-> <<"w">>, start |-> 601, end |-> 605] >>

\* the elements of a set of indices of s, in the order of s
RECURSIVE Pick(_, _, _)
Pick(s, S, k) ==
    IF k > Len(s) THEN <<>>
    ELSE (IF k \in S THEN <<s[k]>> ELSE <<>>) \o Pick(s, S, k + 1)

\* what transcribe_audio returns for one piece: None (ok = FALSE) when the
\* call raised, or a response with its segments in time order
NoResponse == [ok |-> FALSE, segments |-> <<>>]
PieceResponses ==
    {NoResponse}
    \cup {[ok |-> TRUE, segments |-> Pick(SegTemplates, S, 1)] :
             S \in SUBSET (1..Len(SegTemplates))}

\* the segment objects of the response of the piece at position k: the
\* fields piece and idx record where the object came from
SegmentObjects(response, k) ==
    [j \in 1..Len(response.segments) |->
        [text |-> response.segments[j].text,
         start |-> response.segments[j].start,
         end |-> response.segments[j].end,
         piece |-> k,
         idx |-> j]]

InitCombine ==
    /\ pa_pc = "download" /\ pa_chunks = 0 /\ pa_idx = 0 /\ responses = <<>>
    /\ transcriptions = <<>> /\ combined = <<>> /\ pa_result = "none"
    /\ OthersIdle({"combine"})

\* lines 400-402: the download failed
DownloadAudioFails ==
    /\ pa_pc = "download"
    /\ pa_result' = "None"
    /\ pa_pc' = "done"
    /\ UNCHANGED <<pa_chunks, pa_idx, responses, transcriptions, combined>>
    /\ UNCHANGED notCombine

\* lines 400-407: the file is downloaded and split into m pieces; no piece
\* (split_audio returned []) ends the call
SplitAudio ==
    /\ pa_pc = "download"
    /\ \E m \in 0..MaxPieces :
          /\ pa_chunks' = m
          /\ IF m = 0
             THEN pa_result' = "None" /\ pa_pc' = "done"
             ELSE pa_result' = pa_result /\ pa_pc' = "transcribe"
    /\ UNCHANGED <<pa_idx, responses, transcriptions, combined>>
    /\ UNCHANGED notCombine

\* lines 411-414: the next piece is transcribed; a response that is not None
\* is appended to transcriptions
TranscribeAudio ==
    /\ pa_pc = "transcribe"
    /\ pa_idx < pa_chunks
    /\ \E transcription \in PieceResponses :
          /\ responses' = Append(responses, transcription)
          /\ transcriptions' =
                IF transcription.ok
                THEN Append(transcriptions,
                            [segments |-> SegmentObjects(transcription, pa_idx)])
                ELSE transcriptions
    /\ pa_idx' = pa_idx + 1
    /\ UNCHANGED <<pa_pc, pa_chunks, combined, pa_result>>
    /\ UNCHANGED notCombine

\* lines 416-417: no piece was transcribed
NoTranscriptions ==
    /\ pa_pc = "transcribe"
    /\ pa_idx = pa_chunks
    /\ transcriptions = <<>>
    /\ pa_result' = "None"
    /\ pa_pc' = "done"
    /\ UNCHANGED <<pa_chunks, pa_idx, responses, transcriptions, combined>>
    /\ UNCHANGED notCombine

\* line 330: the offset of the transcription at index i of the list
Offset(i) == i * 600

\* lines 331-332: the segment object after the offset is added to it
AdjustSegment(segment, i) ==
    [segment EXCEPT !.start = @ + Offset(i), !.end = @ + Offset(i)]

\* lines 326-333: the transcriptions after the loop, their segment objects
\* adjusted in place
AdjustAll(trs) ==
    [i \in 1..Len(trs) |->
        [segments |-> [j \in 1..Len(trs[i].segments) |->
                          AdjustSegment(trs[i].segments[j], i - 1)]]]

\* lines 325-333: all_segments after the loop
AllSegments(trs) == Concat([i \in 1..Len(trs) |-> trs[i].segments])

\* list.sort is stable: x goes after the elements whose start is <= its own
RECURSIVE InsertByStart(_, _)
InsertByStart(sorted, x) ==
    IF sorted = <<>> THEN <<x>>
    ELSE IF sorted[Len(sorted)].start <= x.start THEN Append(sorted, x)
         ELSE Append(InsertByStart(SubSeq(sorted, 1, Len(sorted) - 1), x),
                     sorted[Len(sorted)])

\* line 336: all_segments.sort(key=lambda x: x.start)
RECURSIVE SortByStart(_)
SortByStart(list) ==
    IF list = <<>> THEN <<>>
    ELSE InsertByStart(SortByStart(SubSeq(list, 1, Len(list) - 1)), list[Len(list)])

\* lines 339-357: the dict that combine_transcriptions returns
CombinedResult(trs) ==
    LET all_segments == SortByStart(AllSegments(AdjustAll(trs)))
    IN [text |-> Join(Texts(all_segments), <<" ">>),
        segments |-> all_segments]

\* line 424 and lines 311-357: the transcriptions are combined; the loop
\* writes the offsets into the segment objects of the transcriptions
CombineTranscriptions ==
    /\ pa_pc = "transcribe"
    /\ pa_idx = pa_chunks
    /\ transcriptions # <<>>
    /\ transcriptions' = AdjustAll(transcriptions)
    /\ combined' = Append(combined, CombinedResult(transcriptions))
    /\ pa_result' = "combined"
    /\ pa_pc' = "done"
    /\ UNCHANGED <<pa_chunks, pa_idx, responses>>
    /\ UNCHANGED notCombine

\* lines 311-357 once more: a caller combines the same list again
CombineAgain ==
    /\ pa_pc = "done"
    /\ pa_result = "combined"
    /\ Len(combined) < MaxCombines
    /\ transcriptions' = AdjustAll(transcriptions)
    /\ combined' = Append(combined, CombinedResult(transcriptions))
    /\ UNCHANGED <<pa_pc, pa_chunks, pa_idx, responses, pa_result>>
    /\ UNCHANGED notCombine

SpecCombine ==
    /\ InitCombine
    /\ [][\/ DownloadAudioFails
          \/ SplitAudio
          \/ TranscribeAudio
          \/ NoTranscriptions
          \/ CombineTranscriptions
          \/ CombineAgain]_vars

(***************************************************************************)
(* AudioProcessor.format_timestamp                                         *)
(***************************************************************************)
\* the whole numbers of seconds the calls are made with: the first ones, and
\* the values around a minute, an hour, a day and a hundred hours
TimestampInputs ==
    (0..MaxSeconds)
    \cup {599, 600, 3599, 3600, 3601, 3661, 35999, 36000, 86399, 86400, 86401,
          90000, 90061, 172800, 359999, 360000}

\* timedelta(seconds=s).seconds, line 40: the seconds within the day, the
\* whole days are kept in td.days
TimedeltaSeconds(s) == s % 86400

\* the format specification 02d
Format02d(n) == IF n < 10 THEN <<"0">> \o Str(n) ELSE Str(n)

\* lines 40-47
FormatTimestamp(s) ==
    LET td_seconds == TimedeltaSeconds(s)
        hours == td_seconds \div 3600
        minutes == (td_seconds % 3600) \div 60
        seconds == td_seconds % 60
    IN IF hours > 0
       THEN Format02d(hours) \o <<":">> \o Format02d(minutes) \o <<":">> \o Format02d(seconds)
       ELSE Format02d(minutes) \o <<":">> \o Format02d(seconds)

InitTimestamp ==
    /\ ft_pc = "call"
    /\ ft_seconds \in TimestampInputs
    /\ ft_result = <<>>
    /\ OthersIdle({"timestamp"})

CallFormatTimestamp ==
    /\ ft_pc = "call"
    /\ ft_result' = FormatTimestamp(ft_seconds)
    /\ ft_pc' = "done"
    /\ UNCHANGED ft_seconds
    /\ UNCHANGED <<audioVars, textVars, combineVars, pairVars, storeVars, itemsVars,
                   newVars>>

SpecTimestamp == InitTimestamp /\ [][CallFormatTimestamp]_vars

(***************************************************************************)
(* Two chunking calls whose steps interleave.  The variables of            *)
(* split_text_into_chunks and of chunk_podcast are locals of the call: the *)
(* call that runs has them in the variables of the part above, the call    *)
(* that waits has them in pr_saved.  The store is the one object the two   *)
(* chunk_podcast calls share.  Each call is first run alone on the same    *)
(* arguments, so that what it emits alone is known.                        *)
(***************************************************************************)
\* helpers.py 93-149: the local variables of a split_text_into_chunks call
TextLocals ==
    [kind |-> "text", pc |-> pc, pages |-> pages, text |-> text,
     max_size |-> max_size, overlap |-> overlap,
     page_breaks |-> page_breaks, clean_text |-> clean_text,
     page_map |-> page_map, paragraphs |-> paragraphs, p_idx |-> p_idx,
     chunks |-> chunks, current_chunk |-> current_chunk,
     current_size |-> current_size, current_position |-> current_position,
     paragraph_page |-> paragraph_page, sentences |-> sentences,
     s_idx |-> s_idx, sent_chunk |-> sent_chunk, sent_size |-> sent_size,
     sent_position |-> sent_position]

\* the locals when the call begins
FreshText(input) ==
    [kind |-> "text", pc |-> "start", pages |-> <<>>, text |-> input.text,
     max_size |-> input.max_size, overlap |-> input.overlap,
     page_breaks |-> <<>>, clean_text |-> <<>>, page_map |-> <<>>,
     paragraphs |-> <<>>, p_idx |-> 0, chunks |-> <<>>,
     current_chunk |-> <<>>, current_size |-> 0, current_position |-> 0,
     paragraph_page |-> 1, sentences |-> <<>>, s_idx |-> 0,
     sent_chunk |-> <<>>, sent_size |-> 0, sent_position |-> 0]

\* the call whose locals are r is the one that runs
TextIs(r) ==
    /\ pc = r.pc /\ pages = r.pages /\ text = r.text /\ max_size = r.max_size
    /\ overlap = r.overlap /\ page_breaks = r.page_breaks
    /\ clean_text = r.clean_text /\ page_map = r.page_map
    /\ paragraphs = r.paragraphs /\ p_idx = r.p_idx /\ chunks = r.chunks
    /\ current_chunk = r.current_chunk /\ current_size = r.current_size
    /\ current_position = r.current_position /\ paragraph_page = r.paragraph_page
    /\ sentences = r.sentences /\ s_idx = r.s_idx /\ sent_chunk = r.sent_chunk
    /\ sent_size = r.sent_size /\ sent_position = r.sent_position

ResumeText(r) ==
    /\ pc' = r.pc /\ pages' = r.pages /\ text' = r.text /\ max_size' = r.max_size
    /\ overlap' = r.overlap /\ page_breaks' = r.page_breaks
    /\ clean_text' = r.clean_text /\ page_map' = r.page_map
    /\ paragraphs' = r.paragraphs /\ p_idx' = r.p_idx /\ chunks' = r.chunks
    /\ current_chunk' = r.current_chunk /\ current_size' = r.current_size
    /\ current_position' = r.current_position
    /\ paragraph_page' = r.paragraph_page /\ sentences' = r.sentences
    /\ s_idx' = r.s_idx /\ sent_chunk' = r.sent_chunk /\ sent_size' = r.sent_size
    /\ sent_position' = r.sent_position

\* audio.py 49-88: the local variables of a chunk_podcast call, with the
\* podcast row it reads and updates
AudioLocals ==
    [kind |-> "audio", cp_pc |-> cp_pc, segments |-> segments,
     chunk_index |-> chunk_index, current_pos |-> current_pos,
     cp_i |-> cp_i, cp_current_chunk |-> cp_current_chunk,
     current_length |-> current_length,
     chunk_start_time |-> chunk_start_time, status |-> status,
     result |-> result]

FreshAudio(segs) ==
    [kind |-> "audio", cp_pc |-> "begin", segments |-> segs,
     chunk_index |-> 0, current_pos |-> 0, cp_i |-> 0,
     cp_current_chunk |-> <<>>, current_length |-> 0,
     chunk_start_time |-> 0, status |-> "pending", result |-> "none"]

AudioIs(r) ==
    /\ cp_pc = r.cp_pc /\ segments = r.segments /\ chunk_index = r.chunk_index
    /\ current_pos = r.current_pos /\ cp_i = r.cp_i
    /\ cp_current_chunk = r.cp_current_chunk /\ current_length = r.current_length
    /\ chunk_start_time = r.chunk_start_time /\ status = r.status
    /\ result = r.result

ResumeAudio_SharedIndex(r) ==
    /\ cp_pc' = r.cp_pc /\ segments' = r.segments /\ chunk_index' = chunk_index
    /\ current_pos' = r.current_pos /\ cp_i' = r.cp_i
    /\ cp_current_chunk' = r.cp_current_chunk
    /\ current_length' = r.current_length
    /\ chunk_start_time' = r.chunk_start_time /\ status' = r.status
    /\ result' = r.result

ResumeAudio(r) ==
    /\ cp_pc' = r.cp_pc /\ segments' = r.segments /\ chunk_index' = r.chunk_index
    /\ current_pos' = r.current_pos /\ cp_i' = r.cp_i
    /\ cp_current_chunk' = r.cp_current_chunk
    /\ current_length' = r.current_length
    /\ chunk_start_time' = r.chunk_start_time /\ status' = r.status
    /\ result' = r.result

\* the arguments of the split_text_into_chunks calls
PairTextInputs ==
    {[text |-> t, max_size |-> prm[1], overlap |-> prm[2]] :
        t \in {Concat(<<TokA, TokP, TokA, TokP, TokA>>),
               Concat(<<TokS, TokS, TokS>>),
               Concat(<<TokA, Marker(1), TokA, TokP, TokS>>)},
        prm \in Params}

\* the segment lists of the two podcasts
PairAudioInputs ==
    {MkSegments(lens) :
        lens \in {<<300, 300, 300, 300>>, <<400, 400, 400>>, <<600, 300>>, <<1100>>,
                  <<300, 400, 600>>}}

InitPair ==
    /\ \/ /\ pr_kind = "text"
          /\ pr_inputs \in PairTextInputs \X PairTextInputs
          /\ TextIs(FreshText(pr_inputs[1]))
          /\ AudioIdle
       \/ /\ pr_kind = "audio"
          /\ pr_inputs \in PairAudioInputs \X PairAudioInputs
          /\ AudioIs(FreshAudio(pr_inputs[1]))
          /\ chatbot_sources = <<>>
          /\ TextIdle
    /\ pr_phase = "solo1"
    /\ pr_solo = <<<<>>, <<>>>>
    /\ pr_saved = [kind |-> "none"]
    /\ podcast_id = 1
    /\ OthersIdle({"audio", "text", "pair"})

\* what the running call has emitted: the chunks appended to its list, or the
\* rows of its podcast in the store
Emitted == IF pr_kind = "text" THEN chunks ELSE RowsOf(podcast_id)

\* the running call has returned (or, for a chunk_podcast call, has filled the
\* part of the store that is recorded)
Returned_ ==
    IF pr_kind = "text" THEN pc = "done"
    ELSE cp_pc = "done" \/ Len(RowsOf(podcast_id)) = MaxChunks

\* the running call is replaced by a call that begins on the arguments input;
\* a chunk_podcast call run alone begins on an empty store
Begin(input, store) ==
    IF pr_kind = "text"
    THEN ResumeText(FreshText(input)) /\ UNCHANGED audioVars
    ELSE ResumeAudio(FreshAudio(input)) /\ chatbot_sources' = store /\ UNCHANGED textVars

\* the first call has run alone: the second call is run alone
SoloNext ==
    /\ pr_phase = "solo1"
    /\ Returned_
    /\ pr_solo' = [pr_solo EXCEPT ![1] = Emitted]
    /\ Begin(pr_inputs[2], <<>>)
    /\ podcast_id' = 2
    /\ pr_phase' = "solo2"
    /\ UNCHANGED <<pr_kind, pr_inputs, pr_saved, notChunking>>

\* both calls have run alone: the two calls begin again, on one store
StartPair ==
    /\ pr_phase = "solo2"
    /\ Returned_
    /\ pr_solo' = [pr_solo EXCEPT ![2] = Emitted]
    /\ Begin(pr_inputs[1], <<>>)
    /\ pr_saved' = IF pr_kind = "text" THEN FreshText(pr_inputs[2])
                   ELSE FreshAudio(pr_inputs[2])
    /\ podcast_id' = 1
    /\ pr_phase' = "pair"
    /\ UNCHANGED <<pr_kind, pr_inputs, notChunking>>

\* the scheduler suspends the running call between two of its steps and
\* resumes the other one
Switch ==
    /\ pr_phase = "pair"
    /\ IF pr_kind = "text"
       THEN /\ pr_saved' = TextLocals
            /\ ResumeText(pr_saved)
            /\ UNCHANGED audioVars
       ELSE /\ pr_saved' = AudioLocals
            /\ ResumeAudio(pr_saved)
            /\ UNCHANGED <<chatbot_sources, textVars>>
    /\ podcast_id' = 3 - podcast_id
    /\ UNCHANGED <<pr_kind, pr_phase, pr_inputs, pr_solo, notChunking>>

SpecPair ==
    /\ InitPair
    /\ [][\/ Prepare
          \/ ParagraphOversize
          \/ SentenceAppend
          \/ SentenceFlush
          \/ SentenceEnd
          \/ ParagraphAppend
          \/ ParagraphOverflow
          \/ FinalFlush
          \/ InitChunking
          \/ WhileEnter
          \/ ForOverflow
          \/ ForAppend
          \/ ForFinal
          \/ WhileExit
          \/ SoloNext
          \/ StartPair
          \/ Switch]_vars

(***************************************************************************)
(* chunk_podcast with a store that may refuse a row                        *)
(***************************************************************************)
FailedReturn_FallsThrough ==
    /\ result' = "True"
    /\ status' = "processed"

\* lines 127-129 and 165-167: add_to_chatbot_sources returned None, the
\* error is logged and chunk_podcast returns False
FailedReturn ==
    /\ result' = "False"
    /\ status' = status

\* lines 97-129: the chunk is closed by overflow and the store refuses it
ForOverflowFails ==
    /\ cp_pc = "for"
    /\ LET segment == segments[cp_i + 1]
           segment_length == RunLen(segment.text)
       IN /\ current_length + segment_length > chunk_size
          /\ cp_current_chunk # <<>>
    /\ insert_failures' = insert_failures + 1
    /\ FailedReturn
    /\ cp_pc' = "done"
    /\ UNCHANGED <<segments, chunk_index, current_pos, cp_i, cp_current_chunk,
                   current_length, chunk_start_time, chatbot_sources>>
    /\ UNCHANGED <<run, notAudioStore>>

\* lines 134-167: the last segment is appended and the store refuses the
\* final chunk
ForFinalFails ==
    /\ cp_pc = "for"
    /\ LET segment == segments[cp_i + 1]
           segment_length == RunLen(segment.text)
       IN /\ ~(current_length + segment_length > chunk_size /\ cp_current_chunk # <<>>)
          /\ cp_i = Len(segments) - 1
          /\ cp_current_chunk' = Append(cp_current_chunk, segment.text)
          /\ current_length' = current_length + segment_length
    /\ insert_failures' = insert_failures + 1
    /\ FailedReturn
    /\ cp_pc' = "done"
    /\ UNCHANGED <<segments, chunk_index, current_pos, cp_i, chunk_start_time,
                   chatbot_sources>>
    /\ UNCHANGED <<run, notAudioStore>>

\* lines 172-176 with supabase.py 243-245: update_content_status fails and
\* returns False, which chunk_podcast does not look at
WhileExitUpdateFails ==
    /\ cp_pc = "while"
    /\ ~(current_pos < Len(segments))
    /\ result' = "True"
    /\ cp_pc' = "done"
    /\ UNCHANGED <<segments, chunk_index, current_pos, cp_i, cp_current_chunk,
                   current_length, chunk_start_time, chatbot_sources, status>>
    /\ UNCHANGED notAudio

SpecStore ==
    /\ InitAudio
    /\ [][\/ NoSegments
          \/ InitChunking
          \/ WhileEnter
          \/ ForOverflow
          \/ ForOverflowFails
          \/ ForAppend
          \/ ForFinal
          \/ ForFinalFails
          \/ WhileExit
          \/ WhileExitUpdateFails]_vars

(***************************************************************************)
(* BaseProcessor.process_pending_items run by the TextProcessor            *)
(* (src/processors/base.py, src/processors/text.py).  process_content      *)
(* cleans the content and hands it to split_text_into_chunks, whose steps  *)
(* are the ones of the part above.                                         *)
(***************************************************************************)
MaxItems == 2

\* text.py 126: the overlap process_content passes
text_overlap == 200

\* re.sub(r'\s+', ' ', text), text.py 31
RECURSIVE CollapseWhitespace(_, _)
CollapseWhitespace(s, i) ==
    IF i >= Len(s) THEN <<>>
    ELSE IF IsSpace(s[i + 1])
         THEN <<" ">> \o CollapseWhitespace(s, i + SpaceRun(s, i))
         ELSE <<s[i + 1]>> \o CollapseWhitespace(s, i + 1)

\* TextProcessor.clean_text, text.py 20-49: whitespace runs become one space
\* and the ends are stripped; the quotation marks, ligatures, page numbers
\* and headers it rewrites do not occur once whitespace is collapsed in texts
\* over the characters of the model
CleanText(t) ==
    LET s == CollapseWhitespace(t, 0)
        a == IF Len(s) > 0 /\ s[1] = " " THEN 2 ELSE 1
        b == IF Len(s) > 0 /\ s[Len(s)] = " " THEN Len(s) - 1 ELSE Len(s)
    IN SubSeq(s, a, b)

\* the contents of the pending rows
ItemContents ==
    {<<>>, TokA, <<" ", NL>>, Concat(<<TokA, TokP, TokA>>), Concat(<<TokS, TokS, TokA>>)}

InitItems ==
    /\ pi_pc = "begin"
    /\ \E n \in 1..MaxItems :
          /\ pending_items \in [1..n -> [text_content : ItemContents]]
          /\ item_status = [k \in 1..n |-> "pending"]
    /\ item_idx = 0
    /\ chunk_objects = <<>>
    /\ chunk_k = 0
    /\ item_sources = <<>>
    /\ processed_count = 0
    /\ content_chunk_size \in {4, 6}
    /\ OthersIdle({"items"})

\* base.py 53-54: the pending rows are fetched
GetPendingContent ==
    /\ pi_pc = "begin"
    /\ processed_count' = 0
    /\ item_idx' = 0
    /\ pi_pc' = "item"
    /\ UNCHANGED <<pending_items, chunk_objects, chunk_k, item_status, item_sources,
                   content_chunk_size>>
    /\ UNCHANGED notItems

\* base.py 61-64: the content is empty, the item is marked failed
ItemEmpty ==
    /\ pi_pc = "item"
    /\ item_idx < Len(pending_items)
    /\ pending_items[item_idx + 1].text_content = <<>>
    /\ item_status' = [item_status EXCEPT ![item_idx + 1] = "failed"]
    /\ chunk_objects' = Append(chunk_objects, <<>>)
    /\ item_idx' = item_idx + 1
    /\ UNCHANGED <<pi_pc, pending_items, chunk_k, item_sources, processed_count,
                   content_chunk_size>>
    /\ UNCHANGED notItems

\* base.py 67, text.py 114-125: process_content cleans the content and calls
\* split_text_into_chunks
ItemProcessContent ==
    /\ pi_pc = "item"
    /\ item_idx < Len(pending_items)
    /\ pending_items[item_idx + 1].text_content # <<>>
    /\ ResumeText(FreshText([text |-> CleanText(pending_items[item_idx + 1].text_content),
                             max_size |-> content_chunk_size,
                             overlap |-> text_overlap]))
    /\ pi_pc' = "content"
    /\ UNCHANGED <<pending_items, item_idx, chunk_objects, chunk_k, item_status,
                   item_sources, processed_count, content_chunk_size>>
    /\ UNCHANGED notTextItems

\* helpers.py 160-166, 247-258: the dict split_text_into_chunks returns for a
\* chunk
ChunkDict(c) == [text |-> c.text, page |-> c.page]

\* base.py 67-70: process_content has returned, the loop over its chunk
\* objects begins
ItemChunks ==
    /\ pi_pc = "content"
    /\ pc = "done"
    /\ chunk_objects' = Append(chunk_objects, [k \in 1..Len(chunks) |-> ChunkDict(chunks[k])])
    /\ chunk_k' = 0
    /\ pi_pc' = "chunks"
    /\ ResumeText([FreshText([text |-> <<>>, max_size |-> 0, overlap |-> 0])
                       EXCEPT !.pc = "idle"])
    /\ UNCHANGED <<pending_items, item_idx, item_status, item_sources, processed_count,
                   content_chunk_size>>
    /\ UNCHANGED notTextItems

\* base.py 70-101: one pass of the loop over the chunk objects.  chunk_obj
\* ['metadata'] raises KeyError when the dict has no such key, and the except
\* clause marks the item failed; after the last chunk object the item is
\* marked processed and counted.
ForChunkObject ==
    /\ pi_pc = "chunks"
    /\ LET objs == chunk_objects[item_idx + 1]
       IN IF chunk_k < Len(objs)
          THEN LET chunk_obj == objs[chunk_k + 1]
               IN IF "metadata" \in DOMAIN chunk_obj
                  THEN /\ item_sources' = Append(item_sources,
                            [content |-> chunk_obj.text,
                             metadata |-> chunk_obj.metadata,
                             content_index_id |-> item_idx + 1])
                       /\ chunk_k' = chunk_k + 1
                       /\ UNCHANGED <<pi_pc, item_idx, item_status, processed_count>>
                  ELSE /\ item_status' = [item_status EXCEPT ![item_idx + 1] = "failed"]
                       /\ item_idx' = item_idx + 1
                       /\ pi_pc' = "item"
                       /\ UNCHANGED <<chunk_k, item_sources, processed_count>>
          ELSE /\ item_status' = [item_status EXCEPT ![item_idx + 1] = "processed"]
               /\ processed_count' = processed_count + 1
               /\ item_idx' = item_idx + 1
               /\ pi_pc' = "item"
               /\ UNCHANGED <<chunk_k, item_sources>>
    /\ UNCHANGED <<pending_items, chunk_objects, content_chunk_size>>
    /\ UNCHANGED notItems

\* base.py 103: return processed_count
ItemsReturn ==
    /\ pi_pc = "item"
    /\ item_idx = Len(pending_items)
    /\ pi_pc' = "done"
    /\ UNCHANGED <<pending_items, item_idx, chunk_objects, chunk_k, item_status,
                   item_sources, processed_count, content_chunk_size>>
    /\ UNCHANGED notItems

SpecItems ==
    /\ InitItems
    /\ [][\/ GetPendingContent
          \/ ItemEmpty
          \/ ItemProcessContent
          \/ Prepare
          \/ ParagraphOversize
          \/ SentenceAppend
          \/ SentenceFlush
          \/ SentenceEnd
          \/ ParagraphAppend
          \/ FinalFlush
          \/ ItemChunks
          \/ ForChunkObject
          \/ ItemsReturn]_vars

(***************************************************************************)
(* Repeated runs of process_pending_podcasts on one podcast                *)
(***************************************************************************)
MaxRuns == 2

\* db.get_content_by_status(st, content_type='podcast'): the podcasts whose
\* status is st
GetContentByStatus(st) == IF status = st THEN <<podcast_id>> ELSE <<>>

\* lines 182-213: a run of process_pending_podcasts; chunk_podcast is called
\* for the podcast when its status is 'pending'
ProcessPendingPodcasts ==
    /\ cp_pc = "done"
    /\ run < MaxRuns
    /\ run' = run + 1
    /\ IF GetContentByStatus("pending") # <<>>
       THEN /\ ResumeAudio([FreshAudio(segments) EXCEPT !.status = status])
            /\ insert_failures' = 0
       ELSE UNCHANGED <<cp_pc, segments, chunk_index, current_pos, cp_i, cp_current_chunk,
                        current_length, chunk_start_time, status, result, insert_failures>>
    /\ UNCHANGED <<chatbot_sources, notAudioStore>>

SpecRuns ==
    /\ InitAudio
    /\ [][\/ ProcessPendingPodcasts
          \/ NoSegments
          \/ InitChunking
          \/ WhileEnter
          \/ ForOverflow
          \/ ForOverflowFails
          \/ ForAppend
          \/ ForFinal
          \/ ForFinalFails
          \/ WhileExit
          \/ WhileExitUpdateFails]_vars

(***************************************************************************)
(* AudioProcessor.process_new_podcasts                                     *)
(***************************************************************************)
MaxNew == 3

\* db.update_content(content_id, ..., status='pending', ...): the row takes the
\* new status when the update succeeds
UpdateContent(st, k, success) == IF success THEN [st EXCEPT ![k] = "pending"] ELSE st

InitNew ==
    /\ np_pc = "begin"
    /\ \E n \in 0..MaxNew :
          /\ new_podcasts \in [1..n -> [download_url : {"", "url"}]]
          /\ np_status = [k \in 1..n |-> "new"]
    /\ np_idx = 0
    /\ np_processed_count = 0
    /\ OthersIdle({"new"})

\* lines 440-448: the podcasts of status 'new' are fetched; return 0 when
\* there is none
NewFetch ==
    /\ np_pc = "begin"
    /\ np_pc' = IF new_podcasts = <<>> THEN "done" ELSE "for"
    /\ np_processed_count' = 0
    /\ np_idx' = 0
    /\ UNCHANGED <<new_podcasts, np_status>>
    /\ UNCHANGED notNew

\* lines 453-457: no download URL, the podcast is skipped
NewNoUrl ==
    /\ np_pc = "for"
    /\ np_idx < Len(new_podcasts)
    /\ new_podcasts[np_idx + 1].download_url = ""
    /\ np_idx' = np_idx + 1
    /\ UNCHANGED <<np_pc, new_podcasts, np_status, np_processed_count>>
    /\ UNCHANGED notNew

\* lines 459-465: process_audio returns None, the podcast is marked failed
NewAudioFails ==
    /\ np_pc = "for"
    /\ np_idx < Len(new_podcasts)
    /\ new_podcasts[np_idx + 1].download_url # ""
    /\ np_status' = [np_status EXCEPT ![np_idx + 1] = "failed"]
    /\ np_idx' = np_idx + 1
    /\ UNCHANGED <<np_pc, new_podcasts, np_processed_count>>
    /\ UNCHANGED notNew

\* lines 459-483: process_audio returns a transcription and update_content
\* stores it; the podcast is counted when the update succeeded
NewUpdateContent ==
    /\ np_pc = "for"
    /\ np_idx < Len(new_podcasts)
    /\ new_podcasts[np_idx + 1].download_url # ""
    /\ \E success \in BOOLEAN :
          /\ np_status' = UpdateContent(np_status, np_idx + 1, success)
          /\ np_processed_count' = IF success THEN np_processed_count + 1
                                   ELSE np_processed_count
    /\ np_idx' = np_idx + 1
    /\ UNCHANGED <<np_pc, new_podcasts>>
    /\ UNCHANGED notNew

\* lines 485-486: return processed_count
NewReturn ==
    /\ np_pc = "for"
    /\ np_idx = Len(new_podcasts)
    /\ np_pc' = "done"
    /\ UNCHANGED <<new_podcasts, np_idx, np_status, np_processed_count>>
    /\ UNCHANGED notNew

SpecNew ==
    /\ InitNew
    /\ [][\/ NewFetch
          \/ NewNoUrl
          \/ NewAudioFails
          \/ NewUpdateContent
          \/ NewReturn]_vars

(***************************************************************************)
(* Claims about chunk_podcast                                              *)
(***************************************************************************)
Meta(k) == chatbot_sources[k].metadata
NumSegs(m) == m.segment_end_index - m.segment_start_index + 1

\* the texts of the segments with 0-based indices a..b, in order
SegTexts(a, b) == [j \in 1..(b - a + 1) |-> segments[a + j].text]

\* C1: for every non-empty segment list and a store that accepts every chunk,
\* the chunking loop eventually exhausts the list: chunk_podcast reaches its
\* end and returns True.
C1_Terminates == (Len(segments) > 0) => <>(cp_pc = "done" /\ result = "True")

\* C4: for every two consecutive chunks the later one starts at
\* max(0, overflow_index - 2), which is <= the earlier one's
\* segment_end_index; when the earlier chunk holds at least 2 segments the
\* later one starts exactly at the earlier's second-last segment and its text
\* begins with the earlier chunk's last two segment texts.
C4_Contiguity ==
    \A k \in 1..(Len(chatbot_sources) - 1) :
        LET a == Meta(k)
            b == Meta(k + 1)
            e == a.segment_end_index
            two == Join(SegTexts(e - 1, e), Space)
        IN /\ b.segment_start_index <= e
           /\ b.segment_start_index = Max(0, (e + 1) - 2)
           /\ NumSegs(a) >= 2 =>
                /\ b.segment_start_index = e - 1
                /\ b.segment_start_index >= a.segment_start_index
                /\ b.segment_end_index >= e
                /\ Len(chatbot_sources[k + 1].content) >= Len(two)
                /\ SubSeq(chatbot_sources[k + 1].content, 1, Len(two)) = two

\* a run that ended with True after storing two chunks, the first of at
\* least 2 segments and the second reaching past it
C4_Witness ==
    /\ cp_pc = "done" /\ result = "True"
    /\ Len(chatbot_sources) >= 2
    /\ NumSegs(Meta(1)) >= 2
    /\ Meta(2).segment_end_index > Meta(1).segment_end_index

\* C5: every stored chunk covers a non-empty range of whole segments inside
\* the list, and its text is exactly the texts of those segments joined in
\* order by single spaces.
C5_WholeSegments ==
    \A k \in 1..Len(chatbot_sources) :
        LET m == Meta(k)
        IN /\ 0 <= m.segment_start_index
           /\ m.segment_end_index >= m.segment_start_index
           /\ m.segment_end_index <= Len(segments) - 1
           /\ chatbot_sources[k].content =
                Join(SegTexts(m.segment_start_index, m.segment_end_index), Space)

\* a stored chunk that holds exactly one segment, longer than the target, and
\* was closed by the overflow of the segment after it
C5_Witness ==
    \E k \in 1..Len(chatbot_sources) :
        /\ NumSegs(Meta(k)) = 1
        /\ RunLen(chatbot_sources[k].content) > 1000
        /\ Meta(k).segment_end_index < Len(segments) - 1

\* C6: every stored chunk of more than one segment has len(text) <= 1000.
C6_SizeBound ==
    \A k \in 1..Len(chatbot_sources) :
        NumSegs(Meta(k)) > 1 => RunLen(chatbot_sources[k].content) <= 1000

(***************************************************************************)
(* Claims about extract_text_from_pdf and split_text_into_chunks           *)
(***************************************************************************)
\* the original positions of the characters that re.sub keeps: the k-th
\* (0-based) is the original position of the character at clean position k
RECURSIVE KeptPositions(_, _)
KeptPositions(s, i) ==
    IF i >= Len(s) THEN <<>>
    ELSE IF MatchLen(s, i) > 0 THEN KeptPositions(s, i + MatchLen(s, i))
         ELSE <<i>> \o KeptPositions(s, i + 1)

\* the page of the last marker that precedes, in the original text, the
\* character at clean position P (the end of the text for P = len(clean_text)),
\* 1 when no marker precedes it
TruePage(P) ==
    LET kept == KeptPositions(text, 0)
        orig == IF P < Len(kept) THEN kept[P + 1] ELSE Len(text)
        before == {k \in 1..Len(page_breaks) : page_breaks[k][1] < orig}
    IN IF before = {} THEN 1
       ELSE page_breaks[CHOOSE k \in before : \A j \in before : j <= k][2]

Prepared == pc \in {"para", "sent", "done"}

\* u occurs in s as a contiguous piece
Contains(s, u) ==
    \E i \in 0..(Len(s) - Len(u)) : SubSeq(s, i + 1, i + Len(u)) = u

Plain(u) == [text |-> u.text, at |-> u.at]

\* the units of a chunk that were not carried over from the previous chunk
RECURSIVE FreshUnits(_)
FreshUnits(units) ==
    IF units = <<>> THEN <<>>
    ELSE (IF units[1].carried THEN <<>> ELSE <<Plain(units[1])>>)
         \o FreshUnits(Tail(units))

NumCarried(units) == Cardinality({k \in 1..Len(units) : units[k].carried})

\* the units of the input: each paragraph, or its sentences when it is
\* longer than max_size, in source order
RECURSIVE UnitsOf(_)
UnitsOf(paras) ==
    IF paras = <<>> THEN <<>>
    ELSE (IF Len(paras[1].text) > max_size
          THEN SplitSentences(paras[1].text, 0,
                              [text |-> <<>>, at |-> paras[1].at], paras[1].at)
          ELSE <<paras[1]>>)
         \o UnitsOf(Tail(paras))

\* C2: every returned chunk has len(text) <= max_size, unless it consists of
\* exactly one sentence that is itself longer than max_size.
C2_SizeBound ==
    \A k \in 1..Len(chunks) :
        \/ Len(chunks[k].text) <= max_size
        \/ /\ Len(chunks[k].units) = 1
           /\ Len(chunks[k].units[1].text) > max_size

\* C3: when split_text_into_chunks returns, every unit of the input (each
\* paragraph, each sentence of a paragraph longer than max_size) occurs whole
\* in the text of a chunk; the carried-over units of a chunk are a prefix of
\* it and the tail of the previous chunk; and the chunks without their
\* carried-over units, concatenated in order, are exactly the units of the
\* input in source order.
C3_Coverage ==
    pc = "done" =>
        /\ \A k \in 1..Len(chunks) :
              LET us == chunks[k].units
                  n == NumCarried(us)
              IN /\ \A j \in 1..Len(us) : us[j].carried <=> j <= n
                 /\ chunks[k].text \in {Join(Texts(us), ParaSep), Join(Texts(us), SentSep)}
                 /\ n > 0 =>
                      /\ k > 1
                      /\ n <= Len(chunks[k - 1].units)
                      /\ \A j \in 1..n :
                            Plain(us[j]) =
                            Plain(chunks[k - 1].units[Len(chunks[k - 1].units) - n + j])
        /\ Concat([k \in 1..Len(chunks) |-> FreshUnits(chunks[k].units)])
             = UnitsOf(paragraphs)
        /\ \A j \in 1..Len(UnitsOf(paragraphs)) :
              \E k \in 1..Len(chunks) : Contains(chunks[k].text, UnitsOf(paragraphs)[j].text)

\* a finished call that returned at least three chunks, one of them starting
\* with carried-over units
C3_Witness ==
    /\ pc = "done"
    /\ Len(chunks) >= 3
    /\ \E k \in 1..Len(chunks) : NumCarried(chunks[k].units) > 0

\* the page numbers of the markers increase in document order
MarkersIncreasing ==
    \A k \in 1..(Len(page_breaks) - 1) : page_breaks[k][2] < page_breaks[k + 1][2]

\* C7: when the markers carry increasing page numbers, the pages of the
\* returned chunks are non-decreasing along the sequence.
C7_MonotonicPages ==
    (Prepared /\ MarkersIncreasing) =>
        \A k \in 1..(Len(chunks) - 1) : chunks[k].page <= chunks[k + 1].page

\* C8: each chunk carries the page that is active at the clean-text offset
\* where its text begins: the page the page map holds for the offset of the
\* chunk's first unit.  Stated for the chunks that begin with a character of
\* the text (a first unit that is not empty).
C8_PageAtChunkStart ==
    Prepared =>
        \A k \in 1..Len(chunks) :
            chunks[k].units[1].text # <<>> =>
                chunks[k].page = PageMapGet(page_map, chunks[k].units[1].at, 1)

\* C9: the page map gives every position P of the marker-stripped text the
\* page number of the last marker that precedes the character at P in the
\* original text, and page 1 when no marker precedes it.
C9_PageMap ==
    Prepared =>
        \A P \in 0..(Len(clean_text) - 1) : PageMapGet(page_map, P, 1) = TruePage(P)

\* C10: in the text made from a PDF, the k-th marker (between pages k and
\* k+1) carries k+1, so the page map gives page 1 to the text of page 1 and
\* page 2 to the text between the first and the second marker.
C10_MarkerNumbering ==
    (Prepared /\ pages # <<>>) =>
        /\ Len(page_breaks) = Len(pages) - 1
        /\ \A k \in 1..Len(page_breaks) : page_breaks[k][2] = k + 1
        /\ \A P \in 0..(Len(clean_text) - 1) :
              LET orig == KeptPositions(text, 0)[P + 1]
              IN IF Len(page_breaks) = 0 \/ orig < page_breaks[1][1]
                 THEN PageMapGet(page_map, P, 1) = 1
                 ELSE (Len(page_breaks) = 1 \/ orig < page_breaks[2][1])
                        => PageMapGet(page_map, P, 1) = 2

\* C11: split_text_into_chunks called on the empty text returns an empty list
\* of chunks, without raising an error.
C11_EmptyTextNoChunks ==
    (pc = "done" /\ text = <<>> /\ pages = <<>>) => chunks = <<>>

\* C12: no chunk returned by split_text_into_chunks has an empty text, for
\* every input text, the empty text and the text of blank lines included.
C12_NoEmptyChunk ==
    \A k \in 1..Len(chunks) : chunks[k].text # <<>>

\* C13: chunk_podcast on a transcript whose segment list is empty emits no
\* chunk and does not return the failure value.
C13_EmptySegments ==
    (cp_pc = "done" /\ segments = <<>>) => (chatbot_sources = <<>> /\ result # "False")

\* C14: every atomic unit longer than the size target (a sentence of an
\* oversized paragraph in split_text_into_chunks, a transcript segment in
\* chunk_podcast) is emitted as its own chunk: a chunk that carries such a
\* unit carries no other sentence or segment.
C14_OversizedAlone ==
    /\ \A k \in 1..Len(chunks) :
          (\E j \in 1..Len(chunks[k].units) : Len(chunks[k].units[j].text) > max_size)
              => Len(chunks[k].units) = 1
    /\ \A k \in 1..Len(chatbot_sources) :
          (\E j \in Meta(k).segment_start_index..Meta(k).segment_end_index :
               RunLen(segments[j + 1].text) > chunk_size)
              => NumSegs(Meta(k)) = 1

\* no sentence-end character of s is followed by whitespace
NoSentenceBoundary(s) ==
    \A i \in 1..(Len(s) - 1) : ~(IsSentenceEnd(s[i]) /\ IsSpace(s[i + 1]))

\* no two newlines of s are adjacent
NoParagraphBreak(s) ==
    \A i \in 1..(Len(s) - 1) : ~(s[i] = NL /\ s[i + 1] = NL)

\* the document is one paragraph of 10 * max_size characters without a
\* sentence boundary
LongSingleParagraph ==
    /\ page_breaks = <<>>
    /\ Len(text) = 10 * max_size
    /\ NoParagraphBreak(text)
    /\ NoSentenceBoundary(text)

\* C15: split_text_into_chunks on a document that is a single paragraph of
\* length 10 * max_size with no sentence boundary returns exactly one chunk,
\* whose text is the whole paragraph.
C15_LongParagraphOneChunk ==
    (pc = "done" /\ LongSingleParagraph) =>
        /\ Len(chunks) = 1
        /\ chunks[1].text = text

\* a finished call on such a paragraph that holds spaces and sentence-end
\* characters
C15_Witness ==
    /\ pc = "done"
    /\ LongSingleParagraph
    /\ \E i \in 1..Len(text) : IsSentenceEnd(text[i])
    /\ \E i \in 1..Len(text) : IsSpace(text[i])
    /\ Len(chunks) = 1

\* the text is two paragraphs of max_size \div 40 and max_size +
\* (max_size \div 40) characters (100 and 4100 for max_size = 4000), the
\* second made of several sentences, each shorter than max_size
TwoParagraphCase ==
    /\ page_breaks = <<>>
    /\ Len(paragraphs) = 2
    /\ max_size \div 40 > 0
    /\ Len(paragraphs[1].text) = max_size \div 40
    /\ Len(paragraphs[2].text) = max_size + (max_size \div 40)
    /\ Len(sentences) >= 2
    /\ \A j \in 1..Len(sentences) : Len(sentences[j].text) < max_size

\* the characters chunk k shares with the chunk before it: its carried-over
\* sentences, joined
SharedChars(k) ==
    LET us == chunks[k].units
    IN Len(Join(Texts(SubSeq(us, 1, NumCarried(us))), SentSep))

\* C16: for a text of two paragraphs of 100 and 4100 characters (the second
\* made of several sentences, each shorter than max_size) with max_size 4000
\* and overlap 200, the first chunk is paragraph 1, the second paragraph
\* follows as at least 2 sentence sub-chunks, each of at most max_size
\* characters, and each sub-chunk shares at most overlap characters with the
\* sub-chunk before it.  Stated for the same proportions at every max_size.
C16_TwoParagraphExample ==
    (pc = "done" /\ TwoParagraphCase) =>
        /\ Len(chunks) >= 3
        /\ chunks[1].text = paragraphs[1].text
        /\ \A k \in 2..Len(chunks) : Len(chunks[k].text) <= max_size
        /\ \A k \in 3..Len(chunks) : SharedChars(k) <= overlap

\* the step that flushes a paragraph group because the next paragraph does
\* not fit (the only step that stores a chunk and stays in the paragraph loop)
OverflowFlushStep ==
    pc = "para" /\ pc' = "para" /\ Len(chunks') = Len(chunks) + 1

JoinedLen(units) == Len(Join(Texts(units), ParaSep))

\* C17: when a paragraph group is flushed because the next paragraph would
\* overflow it, the next group is a suffix of whole paragraphs of the flushed
\* group, of joined length <= overlap, followed by the new paragraph; and the
\* entire flushed group is carried when it is no longer than overlap.
C17_ParagraphOverlap ==
    [][OverflowFlushStep =>
         LET flushed == current_chunk
             n == Len(current_chunk') - 1
             carried_ == SubSeq(current_chunk', 1, n)
         IN /\ chunks'[Len(chunks')].text = Join(Texts(flushed), ParaSep)
            /\ n >= 0 /\ n <= Len(flushed)
            /\ \A j \in 1..n : Plain(carried_[j]) = Plain(flushed[Len(flushed) - n + j])
            /\ Plain(current_chunk'[n + 1]) = paragraphs[p_idx + 1]
            /\ JoinedLen(carried_) <= overlap
            /\ JoinedLen(flushed) <= overlap => n = Len(flushed)]_vars

\* a group of two paragraphs has just been flushed and only its last
\* paragraph was carried into the next group
C17_Witness ==
    /\ pc = "para"
    /\ Len(chunks) >= 1
    /\ Len(chunks[Len(chunks)].units) >= 2
    /\ Len(current_chunk) = 2
    /\ current_chunk[1].carried /\ ~current_chunk[2].carried
    /\ Plain(current_chunk[1]) =
         Plain(chunks[Len(chunks)].units[Len(chunks[Len(chunks)].units)])
    /\ current_chunk[1].text # <<>>

\* C18: each chunk emitted by chunk_podcast has start_seconds equal to the
\* start of the segment at its segment_start_index; a chunk closed by
\* overflow has end_seconds equal to the start of the segment that triggered
\* the overflow (index segment_end_index + 1), and a chunk closed by reaching
\* the last segment has end_seconds equal to the end of that last segment.
C18_ChunkTimes ==
    \A k \in 1..Len(chatbot_sources) :
        LET m == Meta(k)
        IN /\ m.start_seconds = segments[m.segment_start_index + 1].start
           /\ IF m.segment_end_index = Len(segments) - 1
              THEN m.end_seconds = segments[Len(segments)].end
              ELSE m.end_seconds = segments[m.segment_end_index + 2].start

\* a finished call that stored a chunk closed by overflow, then a chunk
\* that begins after segment 0 and is closed by the last segment
C18_Witness ==
    /\ cp_pc = "done"
    /\ result = "True"
    /\ \E k \in 1..Len(chatbot_sources) :
          Meta(k).segment_end_index < Len(segments) - 1
    /\ Meta(Len(chatbot_sources)).segment_end_index = Len(segments) - 1
    /\ Meta(Len(chatbot_sources)).segment_start_index > 0

(***************************************************************************)
(* Claims about process_audio and combine_transcriptions                   *)
(***************************************************************************)
\* the segments of the dict returned by the c-th call of
\* combine_transcriptions
Combined(c) == combined[c].segments

\* the segment that transcribe_audio returned and that the segment object x
\* was made from
Returned(x) == responses[x.piece + 1].segments[x.idx]

\* C19: when the audio is split into pieces 0..m-1 and each piece is
\* transcribed (any transcription may fail), every segment that came from
\* piece k is in the combined transcript with its start and end increased by
\* k * 600, k being the position of the piece in the split audio, and the
\* combined segment list is ordered by non-decreasing start.
C19_PieceOffsets ==
    Len(combined) >= 1 =>
        /\ \A k \in 1..Len(responses) :
              \A j \in 1..Len(responses[k].segments) :
                  \E n \in 1..Len(Combined(1)) :
                      /\ Combined(1)[n].piece = k - 1
                      /\ Combined(1)[n].idx = j
        /\ \A n \in 1..Len(Combined(1)) :
              LET x == Combined(1)[n]
              IN /\ x.text = Returned(x).text
                 /\ x.start = Returned(x).start + x.piece * 600
                 /\ x.end = Returned(x).end + x.piece * 600
        /\ \A n \in 1..(Len(Combined(1)) - 1) :
              Combined(1)[n].start <= Combined(1)[n + 1].start

\* C20: combine_transcriptions leaves the start and end of the segment
\* objects it is given unchanged, so combining the same list of
\* transcriptions twice yields the same timestamps both times.
C20_InputsUnchanged ==
    Len(combined) >= 1 =>
        /\ \A i \in 1..Len(transcriptions) :
              \A j \in 1..Len(transcriptions[i].segments) :
                  LET x == transcriptions[i].segments[j]
                  IN x.start = Returned(x).start /\ x.end = Returned(x).end
        /\ \A c \in 2..Len(combined) : Combined(c) = Combined(1)

(***************************************************************************)
(* Further claims about chunk_podcast                                      *)
(***************************************************************************)
\* the segments are in the order of their start times
StartsSorted(segs) ==
    \A k \in 1..(Len(segs) - 1) : segs[k].start <= segs[k + 1].start

\* C21: chunk_podcast given a segment list that is not sorted by start time
\* reports a failure instead of emitting chunks: no chunk is stored and the
\* call returns the failure value.  (It does not re-sort the list either.)
C21_UnsortedRejected ==
    ~StartsSorted(segments) =>
        /\ chatbot_sources = <<>>
        /\ cp_pc = "done" => result = "False"

(***************************************************************************)
(* Further claims about split_text_into_chunks                             *)
(***************************************************************************)
\* C22: every record returned by split_text_into_chunks carries, besides
\* text and page, an index equal to its position in emission order and a
\* total equal to the number of chunks returned.
C22_IndexAndTotal ==
    pc = "done" =>
        \A k \in 1..Len(chunks) :
            /\ {"text", "page", "index", "total"} \subseteq DOMAIN chunks[k]
            /\ chunks[k].index = k - 1
            /\ chunks[k].total = Len(chunks)

\* the text holds no well-formed [PAGE_BREAK_n] marker
NoWellFormedMarker(s) == \A i \in 0..(Len(s) - 1) : MatchLen(s, i) = 0

\* C23: for every input text that contains no well-formed [PAGE_BREAK_n]
\* marker, every chunk of split_text_into_chunks has page 1 (and the call
\* runs to its return).
C23_NoMarkerPageOne ==
    (Prepared /\ NoWellFormedMarker(text)) =>
        \A k \in 1..Len(chunks) : chunks[k].page = 1

\* a finished call that returned several chunks for a text that holds the
\* beginning of a marker and no well-formed marker
C23_Witness ==
    /\ pc = "done"
    /\ NoWellFormedMarker(text)
    /\ \E i \in 0..(Len(text) - 1) : StartsWith(text, i, MarkerPrefix)
    /\ Len(chunks) >= 2

(***************************************************************************)
(* Claims about format_timestamp                                           *)
(***************************************************************************)
\* n written with at least two digits
TwoDigits(n) == IF n < 10 THEN <<"0">> \o Str(n) ELSE Str(n)

\* C24: for every whole number of seconds s >= 0, format_timestamp(s) is
\* mm:ss, with two-digit minutes (s div 60) mod 60 and two-digit seconds
\* s mod 60, when s div 3600 = 0, and hh:mm:ss with the hour component
\* s div 3600 in front exactly when that component is not zero.
C24_FormatTimestamp ==
    ft_pc = "done" =>
        LET s == ft_seconds
            mmss == TwoDigits((s \div 60) % 60) \o <<":">> \o TwoDigits(s % 60)
        IN ft_result = IF s \div 3600 = 0 THEN mmss
                       ELSE TwoDigits(s \div 3600) \o <<":">> \o mmss

(***************************************************************************)
(* Claims about two interleaved calls                                      *)
(***************************************************************************)
IsPrefix(s, t) == Len(s) <= Len(t) /\ SubSeq(t, 1, Len(s)) = s

\* what the call that waits has emitted, and whether it has returned
WaitingEmitted == IF pr_kind = "text" THEN pr_saved.chunks ELSE RowsOf(3 - podcast_id)
WaitingDone == IF pr_kind = "text" THEN pr_saved.pc = "done" ELSE pr_saved.cp_pc = "done"
RunningDone == IF pr_kind = "text" THEN pc = "done" ELSE cp_pc = "done"

\* C25: in any interleaving of the steps of two chunking calls on independent
\* inputs, each call emits the chunks it emits when run alone, in the same
\* order: at every moment what it has emitted is the beginning of what it
\* emits alone, and all of it once the call has returned.
C25_Independent ==
    pr_phase = "pair" =>
        /\ IsPrefix(Emitted, pr_solo[podcast_id])
        /\ RunningDone => Emitted = pr_solo[podcast_id]
        /\ IsPrefix(WaitingEmitted, pr_solo[3 - podcast_id])
        /\ WaitingDone => WaitingEmitted = pr_solo[3 - podcast_id]

\* two chunk_podcast calls have returned and their rows alternate in the store
C25_Witness ==
    /\ pr_phase = "pair" /\ pr_kind = "audio"
    /\ cp_pc = "done" /\ pr_saved.cp_pc = "done"
    /\ \E k \in 1..(Len(chatbot_sources) - 3) :
          /\ chatbot_sources[k].content_index_id = 1
          /\ chatbot_sources[k + 1].content_index_id = 2
          /\ chatbot_sources[k + 2].content_index_id = 1
          /\ chatbot_sources[k + 3].content_index_id = 2

(***************************************************************************)
(* Claims about chunk_podcast and a store that may refuse a row            *)
(***************************************************************************)
\* every chunk of the podcast is in the store: the loop has gone through the
\* whole segment list and each chunk it numbered has its row
AllChunksStored ==
    /\ ~(current_pos < Len(segments))
    /\ insert_failures = 0
    /\ \A c \in 0..(chunk_index - 1) :
          \E k \in 1..Len(chatbot_sources) : Meta(k).chunk_index = c

\* C26: chunk_podcast returns True, and the status is 'processed', only after
\* every chunk of the podcast has been stored; once an insert has failed the
\* call has returned False, the status is as it was, and no further row is
\* stored.
C26_StoreFailure ==
    /\ []((result = "True" \/ status = "processed") => AllChunksStored)
    /\ [](insert_failures > 0 =>
            cp_pc = "done" /\ result = "False" /\ status = "pending")
    /\ [][insert_failures > 0 => chatbot_sources' = chatbot_sources]_vars

\* a chunk was stored, then the insert of a later chunk failed
C26_Witness ==
    /\ insert_failures = 1 /\ cp_pc = "done" /\ result = "False"
    /\ Len(chatbot_sources) >= 1 /\ Len(chatbot_sources) < MaxChunks

(***************************************************************************)
(* Claims about process_pending_items                                      *)
(***************************************************************************)
\* the rows stored for the item at position k
SourcesOf(k) == SelectSeq(item_sources, LAMBDA row : row.content_index_id = k)

\* the number of items of non-empty content
NonEmptyItems == Cardinality({k \in 1..Len(pending_items) : pending_items[k].text_content # <<>>})

\* C27: with a store that accepts every insert, process_pending_items stores
\* one chatbot source per chunk process_content returned for each pending
\* item of non-empty content, marks the item 'processed' and counts it in
\* the returned number.
C27_ItemsProcessed ==
    pi_pc = "done" =>
        /\ \A k \in 1..Len(pending_items) :
              pending_items[k].text_content # <<>> =>
                  /\ Len(SourcesOf(k)) = Len(chunk_objects[k])
                  /\ item_status[k] = "processed"
        /\ processed_count = NonEmptyItems

(***************************************************************************)
(* Claims about repeated runs                                              *)
(***************************************************************************)
\* C28: across any sequence of process_pending_podcasts runs, also with
\* failing inserts, no two rows of chatbot_sources have the same podcast id
\* and the same chunk_index.
C28_StoredOnce ==
    \A j, k \in 1..Len(chatbot_sources) :
        (/\ chatbot_sources[j].content_index_id = chatbot_sources[k].content_index_id
         /\ Meta(j).chunk_index = Meta(k).chunk_index) => j = k

\* C29: when chunk_podcast returns True for n >= 1 segments, the first stored
\* chunk starts at segment 0, the last one ends at segment n-1, every segment
\* index 0..n-1 lies in the index range of some stored chunk, and the
\* chunk_index values are 0, 1, 2, ... in the order of storing.
C29_Coverage ==
    (cp_pc = "done" /\ result = "True" /\ Len(segments) >= 1) =>
        LET n == Len(segments)
            m == Len(chatbot_sources)
        IN /\ m >= 1
           /\ Meta(1).segment_start_index = 0
           /\ Meta(m).segment_end_index = n - 1
           /\ \A j \in 0..(n - 1) :
                 \E k \in 1..m :
                    Meta(k).segment_start_index <= j /\ j <= Meta(k).segment_end_index
           /\ \A k \in 1..m : Meta(k).chunk_index = k - 1

\* a call that returned True after storing several chunks, the last of which
\* begins inside the range of the one before it
C29_Witness ==
    /\ cp_pc = "done" /\ result = "True" /\ Len(segments) >= 4
    /\ Len(chatbot_sources) >= 2
    /\ LET m == Len(chatbot_sources)
       IN /\ Meta(m).segment_start_index > 0
          /\ Meta(m).segment_start_index <= Meta(m - 1).segment_end_index

(***************************************************************************)
(* Claims about process_new_podcasts                                       *)
(***************************************************************************)
\* C30: after process_new_podcasts has returned, none of the podcasts it
\* fetched has the status 'new': each is 'pending' and counted in the returned
\* number, or 'failed'.
C30_NoneLeftNew ==
    np_pc = "done" =>
        /\ \A k \in 1..Len(new_podcasts) : np_status[k] \in {"pending", "failed"}
        /\ np_processed_count =
              Cardinality({k \in 1..Len(new_podcasts) : np_status[k] = "pending"})

====
